---- MODULE Spec2Model ----
(***************************************************************************)
(* Model of the ntfy.sh client of claude-mobile.                           *)
(*                                                                         *)
(*   Ntfy  (src/unnamed/part_001): the connection manager -- the live      *)
(*         WebSocket, the backoff timer, the staleness watchdog, the       *)
(*         catch-up fetch, the persisted high-water mark, respond().       *)
(*   App   (src/unnamed/part_002): the orchestrator -- handleMessage       *)
(*         (deduplication, notification list), handleResponse.             *)
(*   Push  (src/js/push.js): the Web Push subscription -- subscribe,       *)
(*         updateTopics, unsubscribe.                                      *)
(*                                                                         *)
(* The JavaScript runtime is single threaded: every handler runs to        *)
(* completion, so every handler is one action.  An async function is one   *)
(* action per segment between two awaits.  Timers are modelled by whether  *)
(* they are pending; a pending timer may fire at any moment.               *)
(***************************************************************************)
EXTENDS Integers, Sequences, FiniteSets, Bags

\* ------------------------------------------------------------------ bounds
MaxSockets == 3      \* WebSocket objects alive (not yet closed) at once
MaxFetches == 1      \* catch-up fetches in flight at once
MaxFires   == 5      \* saturation of the counter fires
MaxCloses  == 2      \* saturation of the counter closes
MaxMsg     == 2      \* message ids on the feed: 1..MaxMsg
MaxTime    == 2      \* message times: TimeBase + 1..MaxTime, and 0 for none
MaxLines   == 1      \* lines in one catch-up response
MaxResp    == 2      \* handleResponse invocations in flight at once
MaxTitle   == 2      \* words in a message title
MaxBody    == 4      \* characters in an action's response body
MaxMore    == 1      \* raw actions that follow a message's first http action
MaxSubs    == 2      \* push subscriptions the platform creates: endpoints 1..MaxSubs
MaxPrompts == 2      \* permission prompts
MaxSkew    == 3      \* seconds around the overlap and the lookback that marks are taken from
MaxTick    == 2      \* seconds the clock is taken from: Clock + 0..MaxTick
MaxElapsed == 2      \* ticks a pending watchdog is followed for

\* ------------------------------------------------------- program constants
FLOOR               == 1000     \* let reconnectDelay = 1000
MAX_RECONNECT_DELAY == 10000
OVERLAP             == 5        \* lastSince - 5
LOOKBACK            == 3600     \* Math.floor(Date.now() / 1000) - 3600
SEEN_CAP            == 200      \* [...seenIds].slice(-200)

Slots == 1..MaxSockets

Min(a, b) == IF a < b THEN a ELSE b

RECURSIVE Pow2(_)
Pow2(n) == IF n = 0 THEN 1 ELSE 2 * Pow2(n - 1)

VARIABLES
  \* ---- Ntfy module state
  ws,               \* current socket: 0 (null) or a slot
  sock,             \* readyState of every socket object: slot -> CONNECTING|OPEN|CLOSING|CLOSED
  reconnectDelay,
  reconnectTimer,   \* TRUE iff the backoff timer is pending
  timerDelay,       \* the delay the pending backoff timer was armed with (0: none)
  intentionalClose,
  started,          \* connect() has run: callbacks and wake listeners are registered
  watchdogTimer,    \* TRUE iff the watchdog timer is pending
  elapsed,          \* how long the pending watchdog has been running, in ticks (0: just
                    \* armed, or none pending)
  lastSince,        \* high-water mark in memory (0: null)
  storedSince,      \* localStorage[SINCE_KEY], a string of decimal digits (<<>>: absent)
  fetches,          \* catch-up fetches in flight
  lastStatus,       \* last status handed to onStatusCallback
  \* ---- App module state
  notifications,    \* newest first: [id, answered, answeredWith]
  seenIds,          \* the Set seenIds in insertion order
  storedSeen,       \* localStorage[SEEN_KEY]: the array saveSeen wrote
  resp,             \* handleResponse invocations in flight: a bag of [id, body, stage, posts, orphan]
  \* ---- bookkeeping (history variables, read by no action guard)
  cbIds,            \* ids onMessageCallback was invoked with since the last clear
  dupCall,          \* onMessageCallback was invoked again with an id of cbIds
  paths,            \* the paths ("live", "catchup") that invoked it since the last clear
  lastTime,         \* the time of the last message processed (0: none, or without time)
  lastOutcome,      \* how the last finished handleResponse invocation went
  callerClosed,     \* slots whose close() was called by disconnect()
  opened,           \* slots whose open event has fired
  sinceDisc,        \* statuses emitted since the last disconnect() call (saturating)
  closes,           \* close events taken as unexpected since the last open / wake trigger
  fires,            \* backoff-timer firings since the last open / wake trigger
  woke,             \* what the last handler did if it was a wake listener: "cancelled"
                    \* (timer cancelled, socket created), "forced" (socket created),
                    \* "kept" (no socket created); "none" after any other handler
                    \* that touches the connection
  \* ---- the classifier (pure functions of Ntfy)
  raw,              \* a parsed feed message: [tags, title, actions]
  made,             \* what _processMessage makes of it: [type, actions, reqId]
  \* ---- Push (src/js/push.js) and its environment
  supported,        \* isSupported()
  permission,       \* Notification.permission: "default", "granted", "denied"
  prompts,          \* Notification.requestPermission() calls so far
  subscription,     \* the platform's push subscription: <<>> or <<endpoint>>
  subscribes,       \* subscriptions the platform has created so far
  _vapidKey,        \* the cached key: FALSE (null) or TRUE
  registry,         \* the provider's registrations: endpoint -> <<>> or <<topics>>
  inflight,         \* /v1/webpush requests in flight: [by, method, endpoint, topics]
  pcall,            \* the position of each Push operation: op -> [pc, topics, sub, cause]
  \* ---- the feed provider, as far as one connection attempt sees it
  provider,         \* [log, polled, joined, pushed, fetched]
  \* ---- the clock, and what _fetchRecent asked the provider for
  now,              \* Math.floor(Date.now() / 1000)
  asked,            \* the since parameter of the last poll issued: <<>> or <<since>>
  lastFrame,        \* the last socket frame handled: [kind, after, prev], after being how
                    \* long the watchdog had been running when it arrived, prev the
                    \* kind of the frame before it (where that is followed)
  lastLines         \* the lines of the last catch-up response processed

connVars  == <<ws, sock, reconnectDelay, reconnectTimer, timerDelay, intentionalClose,
               started, watchdogTimer, elapsed, fetches, lastStatus>>
sinceVars == <<lastSince, storedSince>>
bookVars  == <<callerClosed, opened, sinceDisc, closes, fires, woke>>
appVars   == <<notifications, seenIds, storedSeen, resp>>
ingVars   == <<cbIds, dupCall, paths, lastTime>>
logVars   == <<ingVars, lastOutcome>>
classVars == <<raw, made>>
pushVars  == <<supported, permission, prompts, subscription, subscribes, _vapidKey,
               registry, inflight, pcall>>
clockVars == <<now, asked, lastFrame, lastLines>>
vars      == <<connVars, sinceVars, bookVars, appVars, logVars, classVars, pushVars,
               provider, clockVars>>

\* ---------------------------------------------------------------- helpers

\* The status callback is invoked, n statuses having been emitted since the
\* last disconnect() call (sinceDisc counts them while intentionalClose holds).
Emit(status, n) ==
  IF started'
    THEN /\ lastStatus' = status
         /\ sinceDisc' = IF intentionalClose' THEN Min(n + 1, 2) ELSE 0
    ELSE UNCHANGED <<lastStatus, sinceDisc>>

\* _resetWatchdog(): clearTimeout, then setTimeout(..., WATCHDOG_MS)
_resetWatchdog ==
  /\ watchdogTimer' = TRUE
  /\ elapsed' = 0

\* _clearWatchdog(): clearTimeout, watchdogTimer = null
_clearWatchdog ==
  /\ watchdogTimer' = FALSE
  /\ elapsed' = 0

\* setStatus(status): if (onStatusCallback) onStatusCallback(status)
setStatus(status) == Emit(status, sinceDisc)

\* ws.close(): a CONNECTING or OPEN socket starts closing; its close event
\* comes later.  close() on a CLOSING or CLOSED socket does nothing.
CloseCall(s) ==
  IF s # 0 /\ sock[s] \in {"CONNECTING", "OPEN"}
    THEN [sock EXCEPT ![s] = "CLOSING"]
    ELSE sock

\* The early return of _connect is not taken.
CanConnect == ws = 0 \/ sock[ws] \in {"CLOSING", "CLOSED"}

\* A slot whose socket is closed and has delivered its close event can hold
\* the next WebSocket object (that one is the slot of ws when ws is closed).
\* cap.s is the number of slots the specification uses, cap.f the number of
\* catch-up fetches it lets be in flight.
FreeSlots(cap) == {s \in 1..cap.s : sock[s] = "CLOSED"}
NewSlot(cap)   == CHOOSE s \in FreeSlots(cap) : \A t \in FreeSlots(cap) : s <= t

\* The model has room for what _connect would create.
Room(cap) == CanConnect => (FreeSlots(cap) # {} /\ fetches < cap.f)

\* Faulty variant: the socket is created without 'reconnecting' being reported.
_connect_Silent(cap) ==
  IF ~CanConnect
    THEN UNCHANGED <<ws, sock, lastStatus, sinceDisc, fetches, opened, callerClosed>>
    ELSE /\ UNCHANGED <<lastStatus, sinceDisc>>
         /\ ws' = NewSlot(cap)
         /\ sock' = [sock EXCEPT ![NewSlot(cap)] = "CONNECTING"]
         /\ fetches' = fetches + 1
         /\ opened' = opened \ {NewSlot(cap)}
         /\ callerClosed' = callerClosed \ {NewSlot(cap)}

\* Faulty variant: without the early return a socket is created whenever a
\* slot is free.
_connect_NoGuard(cap) ==
  IF FreeSlots(cap) = {}
    THEN UNCHANGED <<ws, sock, lastStatus, sinceDisc, fetches, opened, callerClosed>>
    ELSE /\ setStatus("reconnecting")
         /\ ws' = NewSlot(cap)
         /\ sock' = [sock EXCEPT ![NewSlot(cap)] = "CONNECTING"]
         /\ fetches' = Min(fetches + 1, cap.f)
         /\ opened' = opened \ {NewSlot(cap)}
         /\ callerClosed' = callerClosed \ {NewSlot(cap)}

\* _connect(): early return, else status, new WebSocket, _fetchRecent() issued.
_connect(cap) ==
  IF ~CanConnect
    THEN UNCHANGED <<ws, sock, lastStatus, sinceDisc, fetches, opened, callerClosed>>
    ELSE /\ setStatus("reconnecting")
         /\ ws' = NewSlot(cap)
         /\ sock' = [sock EXCEPT ![NewSlot(cap)] = "CONNECTING"]
         /\ fetches' = fetches + 1
         /\ opened' = opened \ {NewSlot(cap)}
         /\ callerClosed' = callerClosed \ {NewSlot(cap)}

\* Faulty variant: the wake listener connects but leaves timer and delay alone.
_forceReconnect_KeepsTimer(cap) ==
  /\ UNCHANGED <<reconnectTimer, timerDelay, reconnectDelay>>
  /\ closes' = 0
  /\ fires' = 0
  /\ woke' = IF ~CanConnect THEN "kept"
             ELSE IF reconnectTimer THEN "cancelled" ELSE "forced"
  /\ _connect(cap)

\* _forceReconnect(): cancel the backoff timer, reset the delay, connect now.
_forceReconnect(cap) ==
  /\ reconnectTimer' = FALSE
  /\ timerDelay' = 0
  /\ reconnectDelay' = FLOOR
  /\ closes' = 0
  /\ fires' = 0
  /\ woke' = IF ~CanConnect THEN "kept"
             ELSE IF reconnectTimer THEN "cancelled" ELSE "forced"
  /\ _connect(cap)

\* ------------------------------------------------------------- the feed

Ids    == 1..MaxMsg
Bodies == {"OK", "NOK"}
Paths  == {"live", "catchup"}

\* A feed message that parses and is a "message" event: {id, time}; time 0
\* stands for a message without time.  The times that are present straddle
\* a change in the number of digits.
TimeBase == 8
Times == {0} \cup {TimeBase + t : t \in 1..MaxTime}
Msgs == [id : Ids, time : Times]

\* What a socket frame or a catch-up line can be.
Keepalive == [kind |-> "keepalive"]     \* parses, event # "message"
Garbage   == [kind |-> "garbage"]       \* JSON.parse throws
DataFrames(M) == {[kind |-> "message", msg |-> m] : m \in M}
Frames(M) == {Keepalive, Garbage} \cup DataFrames(M)

\* ----------------------------------------------------- ingestion (pure)
\* The state the ingestion path reads and writes, as a record, so that a
\* catch-up response (several lines in one handler run) is a fold.
IngestState ==
  [ls |-> lastSince, ss |-> storedSince, notifs |-> notifications,
   seen |-> seenIds, sseen |-> storedSeen, ids |-> cbIds, dup |-> dupCall, paths |-> paths,
   lt |-> lastTime]

InSeq(x, s) == \E i \in 1..Len(s) : s[i] = x
HasNotif(ns, id) == \E i \in 1..Len(ns) : ns[i].id = id

\* String(ts) of a non-negative integer: its decimal digits.
RECURSIVE String(_)
String(n) == IF n < 10 THEN <<n>> ELSE Append(String(n \div 10), n % 10)

\* parseInt(v, 10) of a non-empty string of decimal digits.
RECURSIVE parseInt(_)
parseInt(v) ==
  IF Len(v) = 1 THEN v[1]
  ELSE parseInt(SubSeq(v, 1, Len(v) - 1)) * 10 + v[Len(v)]

\* Faulty variant: the mark is overwritten without comparing.
_saveLastSince_NoGuard(st, ts) == [st EXCEPT !.ls = ts, !.ss = String(ts)]

\* _saveLastSince(ts)
_saveLastSince(st, ts) ==
  IF st.ls = 0 \/ ts > st.ls
    THEN [st EXCEPT !.ls = ts, !.ss = String(ts)]
    ELSE st

\* Faulty variant: no deduplication: every invocation adds a notification.
handleMessage_NoDedup(st, m) ==
  [st EXCEPT !.seen = IF InSeq(m.id, @) THEN @ ELSE Append(@, m.id),
             !.notifs = <<[id |-> m.id, answered |-> FALSE, answeredWith |-> "null"]>>
                        \o @]

\* Faulty variant: the id is not added to the Seen-Set; only the list is searched.
handleMessage_NoSeenAdd(st, m) ==
  IF InSeq(m.id, st.seen) \/ HasNotif(st.notifs, m.id)
    THEN st
    ELSE [st EXCEPT !.notifs =
            <<[id |-> m.id, answered |-> FALSE, answeredWith |-> "null"]>> \o @]

\* saveSeen(): [...seenIds].slice(-200) is stored
saveSeen(seen) ==
  IF Len(seen) <= SEEN_CAP THEN seen
  ELSE SubSeq(seen, Len(seen) - SEEN_CAP + 1, Len(seen))

\* handleMessage(notification)
handleMessage(st, m) ==
  IF InSeq(m.id, st.seen)
    THEN st
    ELSE LET st1 == [st EXCEPT !.seen = Append(st.seen, m.id),
                               !.sseen = saveSeen(Append(st.seen, m.id))]
         IN  IF HasNotif(st1.notifs, m.id)
               THEN st1
               ELSE [st1 EXCEPT !.notifs =
                       <<[id |-> m.id, answered |-> FALSE, answeredWith |-> "null"]>>
                       \o st1.notifs]

\* _processMessage(msg), reached from the path `path`
_processMessage(st, m, path) ==
  LET st0 == [st EXCEPT !.lt = m.time]
      st1 == IF m.time # 0 THEN _saveLastSince(st0, m.time) ELSE st0
      st2 == [st1 EXCEPT !.ids = @ \cup {m.id}, !.dup = @ \/ m.id \in st1.ids,
                         !.paths = @ \cup {path}]
  IN  IF started THEN handleMessage(st2, m) ELSE st1

\* A frame or line that parses and is a message on which _processMessage
\* throws while it classifies it (an http action without a body, tags that are
\* not a list): the caller's catch takes it before anything is written.
Broken == [kind |-> "broken"]

\* One frame or line: keepalive and unparsable ones are skipped.
IngestOne(st, f, path) ==
  IF f.kind = "message" THEN _processMessage(st, f.msg, path) ELSE st

\* Faulty variant: one catch around the loop: a bad line ends the response.
RECURSIVE IngestAll_StopAtBad(_, _, _)
IngestAll_StopAtBad(st, fs, path) ==
  IF fs = <<>> \/ Head(fs).kind \in {"garbage", "broken"} THEN st
  ELSE IngestAll_StopAtBad(IngestOne(st, Head(fs), path), Tail(fs), path)

RECURSIVE IngestAll(_, _, _)
IngestAll(st, fs, path) ==
  IF fs = <<>> THEN st
  ELSE IngestAll(IngestOne(st, Head(fs), path), Tail(fs), path)

\* The ingestion state written back.
Ingested(st) ==
  /\ lastSince' = st.ls
  /\ storedSince' = st.ss
  /\ notifications' = st.notifs
  /\ seenIds' = st.seen
  /\ storedSeen' = st.sseen
  /\ cbIds' = st.ids
  /\ dupCall' = st.dup
  /\ paths' = st.paths
  /\ lastTime' = st.lt

\* ------------------------------------------------------ the classifier
\* A field that can be missing is a sequence: <<>> (missing) or <<value>>.
Missing == <<>>
Some(x) == <<x>>

\* Tags: the five markers and one tag that is no marker.
TagNames == {"lock", "point_right", "question", "white_check_mark", "warning", "tada"}

\* Titles are sequences of words; title.includes(w) finds the word.
TitleWords == {"Permission", "Vyber", "Schvaleni", "Hotovo", "Build"}
Titles == UNION {[1..k -> TitleWords] : k \in 0..MaxTitle}
includes(title, w) == \E i \in 1..Len(title) : title[i] = w

\* Response bodies are sequences of characters.
Digits == {"7", "8"}
Chars  == {"K", "_"} \cup Digits
BodyStrs == UNION {[1..k -> Chars] : k \in 0..MaxBody}

\* Faulty variant: the title heuristics are applied before the tags.
detectType_TitleFirst(m) ==
  LET tags  == IF m.tags = Missing THEN {} ELSE m.tags[1]
      title == IF m.title = Missing THEN <<>> ELSE m.title[1]
  IN  IF includes(title, "Permission") THEN "permission"
      ELSE IF includes(title, "Vyber") THEN "choice"
      ELSE IF includes(title, "Schvaleni") THEN "approve"
      ELSE IF includes(title, "Hotovo") THEN "done"
      ELSE IF "lock" \in tags THEN "permission"
      ELSE IF "point_right" \in tags THEN "choice"
      ELSE IF "question" \in tags THEN "approve"
      ELSE IF "white_check_mark" \in tags THEN "done"
      ELSE "decision"

\* Faulty variant: the title heuristics are tried in the reverse order.
detectType_HeuristicsReversed(m) ==
  LET tags  == IF m.tags = Missing THEN {} ELSE m.tags[1]
      title == IF m.title = Missing THEN <<>> ELSE m.title[1]
  IN  IF "lock" \in tags THEN "permission"
      ELSE IF "point_right" \in tags THEN "choice"
      ELSE IF "question" \in tags THEN "approve"
      ELSE IF "white_check_mark" \in tags THEN "done"
      ELSE IF "warning" \in tags THEN "decision"
      ELSE IF includes(title, "Hotovo") THEN "done"
      ELSE IF includes(title, "Schvaleni") THEN "approve"
      ELSE IF includes(title, "Vyber") THEN "choice"
      ELSE IF includes(title, "Permission") THEN "permission"
      ELSE "decision"

\* detectType(msg)
detectType(m) ==
  LET tags  == IF m.tags = Missing THEN {} ELSE m.tags[1]
      title == IF m.title = Missing THEN <<>> ELSE m.title[1]
  IN  IF "lock" \in tags THEN "permission"
      ELSE IF "point_right" \in tags THEN "choice"
      ELSE IF "question" \in tags THEN "approve"
      ELSE IF "white_check_mark" \in tags THEN "done"
      ELSE IF "warning" \in tags THEN "decision"
      ELSE IF includes(title, "Permission") THEN "permission"
      ELSE IF includes(title, "Vyber") THEN "choice"
      ELSE IF includes(title, "Schvaleni") THEN "approve"
      ELSE IF includes(title, "Hotovo") THEN "done"
      ELSE "decision"

\* msg.actions is missing, something that is no array, or an array.
NoActions    == [shape |-> "missing", list |-> <<>>]
NotAList     == [shape |-> "other", list |-> <<>>]
ActionList(l) == [shape |-> "list", list |-> l]

IsHttp(a) == a.action = "http"

\* Faulty variant: the actions are mapped without being filtered.
extractActions_KeepAll(m) ==
  IF m.actions.shape # "list" THEN <<>>
  ELSE [i \in 1..Len(m.actions.list) |->
          [label |-> m.actions.list[i].label, body |-> m.actions.list[i].body]]

\* extractActions(msg)
extractActions(m) ==
  IF m.actions.shape # "list" THEN <<>>
  ELSE LET kept == SelectSeq(m.actions.list, IsHttp)
       IN  [i \in 1..Len(kept) |-> [label |-> kept[i].label, body |-> kept[i].body]]

\* The number of digits the body ends with.
RECURSIVE TrailingDigits(_)
TrailingDigits(b) ==
  IF b = <<>> \/ b[Len(b)] \notin Digits THEN 0
  ELSE 1 + TrailingDigits(SubSeq(b, 1, Len(b) - 1))

\* body.match(/_(\d+)$/): the match's group 1, or null (Missing).
Match(b) ==
  LET k == TrailingDigits(b)
  IN  IF k >= 1 /\ Len(b) > k /\ b[Len(b) - k] = "_"
        THEN Some(SubSeq(b, Len(b) - k + 1, Len(b)))
        ELSE Missing

\* Faulty variant: the id is taken from the last action.
extractReqId_Last(actions) ==
  IF Len(actions) = 0 THEN Missing ELSE Match(actions[Len(actions)].body)

\* extractReqId(actions)
extractReqId(actions) ==
  IF Len(actions) = 0 THEN Missing ELSE Match(actions[1].body)

\* The classifier's part of _processMessage: type, actions, reqId.
NoMade == [type |-> "none", actions |-> <<>>, reqId |-> Missing]
Made(m) ==
  [type    |-> detectType(m),
   actions |-> extractActions(m),
   reqId   |-> extractReqId(extractActions(m))]

\* Messages to classify: every combination of tags and title.
ClassifyMsgs ==
  {[tags |-> tg, title |-> ti, actions |-> NoActions] :
     tg \in {Missing} \cup {Some(S) : S \in SUBSET TagNames},
     ti \in {Missing} \cup {Some(w) : w \in Titles}}

\* Messages with actions: a first http action with any body, possibly after
\* an action of another kind, followed by further actions.
HttpAction(b) == [action |-> "http", label |-> "L", body |-> b]
ViewAction    == [action |-> "view", label |-> "V", body |-> <<"K", "_", "8">>]
MoreActions ==
  UNION {[1..k -> {HttpAction(<<"K", "_", "8">>), HttpAction(<<"K">>), ViewAction}] :
           k \in 0..MaxMore}
ReqIdMsgs ==
  {[tags |-> Missing, title |-> Missing, actions |-> a] :
     a \in {NoActions, NotAList, ActionList(<<>>), ActionList(<<ViewAction>>)} \cup
           {ActionList(pre \o <<HttpAction(b)>> \o more) :
              pre \in {<<>>, <<ViewAction>>}, b \in BodyStrs, more \in MoreActions}}

\* Messages of every type whose actions are missing, no list, an empty list,
\* a list without an http action, or http actions among others.
MixedActions ==
  <<ViewAction, [action |-> "http", label |-> "Yes", body |-> <<"K", "_", "7">>],
    [action |-> "broadcast", label |-> "B", body |-> <<"K", "_", "8">>],
    [action |-> "http", label |-> "No", body |-> <<"K", "_", "8">>]>>
TypedMsgs ==
  {[tags |-> Some({t}), title |-> Missing, actions |-> a] :
     t \in {"lock", "point_right", "question", "white_check_mark", "warning"},
     a \in {NoActions, NotAList, ActionList(<<>>), ActionList(<<ViewAction>>),
            ActionList(MixedActions)}}

RawMsgs == ClassifyMsgs \cup ReqIdMsgs \cup TypedMsgs

\* ---------------------------------------------------------------- Init
\* The module-level initial values of Ntfy and App, empty localStorage.
NoOutcome == [ok |-> FALSE, retry |-> "none", posts |-> 0]
NoRaw     == [tags |-> Missing, title |-> Missing, actions |-> NoActions]

\* The provider at the start of a connection attempt: nothing published
\* since, the poll not served, the socket not subscribed.
NewAttempt ==
  [log |-> <<>>, polled |-> Missing, joined |-> Missing, pushed |-> 0,
   fetched |-> "pending"]

\* The time of page load, in seconds.
Clock == 7300

NoFrame == [kind |-> "none", after |-> 0, prev |-> "none"]

InitState ==
  /\ provider = NewAttempt
  /\ asked = Missing
  /\ lastFrame = NoFrame
  /\ lastLines = <<>>
  /\ ws = 0
  /\ sock = [s \in Slots |-> "CLOSED"]
  /\ reconnectDelay = FLOOR
  /\ reconnectTimer = FALSE
  /\ timerDelay = 0
  /\ intentionalClose = FALSE
  /\ started = FALSE
  /\ watchdogTimer = FALSE
  /\ elapsed = 0
  /\ lastSince = 0
  /\ fetches = 0
  /\ lastStatus = "none"
  /\ notifications = <<>>
  /\ seenIds = <<>>
  /\ storedSeen = <<>>
  /\ resp = EmptyBag
  /\ callerClosed = {}
  /\ opened = {}
  /\ sinceDisc = 0
  /\ closes = 0
  /\ fires = 0
  /\ woke = "none"
  /\ cbIds = {}
  /\ dupCall = FALSE
  /\ paths = {}
  /\ lastTime = 0
  /\ lastOutcome = NoOutcome

\* Push: no operation is running, nothing is in flight.  _vapidKey = null.
Ops       == {"subscribe", "updateTopics", "unsubscribe"}
Endpoints == 1..MaxSubs
TopicSets == {{"claude"}, {"claude", "builds"}}
Idle      == [pc |-> "idle", topics |-> {}, sub |-> Missing, cause |-> "none"]

InitPush ==
  /\ prompts = 0
  /\ _vapidKey = FALSE
  /\ inflight = {}
  /\ pcall = [op \in Ops |-> Idle]

\* A fresh installation: no permission asked, no subscription.
FreshPush ==
  /\ InitPush
  /\ supported = TRUE
  /\ permission = "default"
  /\ subscription = Missing
  /\ subscribes = 0
  /\ registry = [e \in Endpoints |-> Missing]

InitProgram ==
  /\ InitState
  /\ storedSince = <<>>

\* No message is being classified, no Push operation is running.
Init ==
  /\ InitProgram
  /\ raw = NoRaw
  /\ made = NoMade
  /\ FreshPush
  /\ now = Clock

\* ------------------------------------------------------ Ntfy: the API

\* _loadLastSince(): if (v) lastSince = parseInt(v, 10)
_loadLastSince == IF storedSince # <<>> THEN parseInt(storedSince) ELSE lastSince

\* connect(cfg).  App calls it from init() and, after disconnect(), from the
\* settings save handler.  The listeners it adds call _forceReconnect, which
\* is idempotent, so one listener and several act alike.
connect(cap) ==
  /\ ~started \/ intentionalClose
  /\ Room(cap)
  /\ started' = TRUE
  /\ intentionalClose' = FALSE
  /\ lastSince' = _loadLastSince
  /\ _connect(cap)
  /\ woke' = "none"
  /\ UNCHANGED <<reconnectDelay, reconnectTimer, timerDelay, watchdogTimer, elapsed,
                 storedSince, closes, fires, appVars, logVars>>

\* Faulty variant: disconnect() that leaves the backoff timer pending.
disconnect_KeepsTimer ==
  /\ started
  /\ intentionalClose' = TRUE
  /\ _clearWatchdog
  /\ sock' = CloseCall(ws)
  /\ callerClosed' = IF ws # 0 /\ sock[ws] # "CLOSED"
                       THEN callerClosed \cup {ws} ELSE callerClosed
  /\ UNCHANGED started
  /\ Emit("disconnected", 0)
  /\ woke' = "none"
  /\ UNCHANGED <<ws, reconnectDelay, reconnectTimer, timerDelay, fetches, opened,
                 closes, fires, sinceVars, appVars, logVars>>

\* disconnect()
disconnect ==
  /\ started
  /\ intentionalClose' = TRUE
  /\ _clearWatchdog
  /\ reconnectTimer' = FALSE
  /\ timerDelay' = 0
  /\ sock' = CloseCall(ws)
  /\ callerClosed' = IF ws # 0 /\ sock[ws] # "CLOSED"
                       THEN callerClosed \cup {ws} ELSE callerClosed
  /\ UNCHANGED started
  /\ Emit("disconnected", 0)
  /\ woke' = "none"
  /\ UNCHANGED <<ws, reconnectDelay, fetches, opened, closes, fires,
                 sinceVars, appVars, logVars>>

\* ------------------------------------------------ Ntfy: socket events

\* ws.onopen of socket s
onopen(s) ==
  /\ sock[s] = "CONNECTING"
  /\ sock' = [sock EXCEPT ![s] = "OPEN"]
  /\ reconnectDelay' = FLOOR
  /\ UNCHANGED <<started, intentionalClose>>
  /\ setStatus("connected")
  /\ _resetWatchdog
  /\ opened' = opened \cup {s}
  /\ closes' = 0
  /\ fires' = 0
  /\ woke' = "none"
  /\ UNCHANGED <<ws, reconnectTimer, timerDelay, fetches, callerClosed,
                 sinceVars, appVars, logVars>>

\* Faulty variant: the watchdog is reset after the frame has been parsed.
onmessage_ResetAfterParse(s, f) ==
  /\ sock[s] = "OPEN"
  /\ IF f.kind = "garbage" THEN UNCHANGED <<watchdogTimer, elapsed>> ELSE _resetWatchdog
  /\ Ingested(IngestOne(IngestState, f, "live"))
  /\ UNCHANGED <<ws, sock, reconnectDelay, reconnectTimer, timerDelay,
                 intentionalClose, started, fetches, lastStatus, bookVars,
                 resp, lastOutcome>>

\* ws.onmessage of socket s with frame f: the watchdog is reset first, then
\* the frame is parsed and, if it is a message, processed.
onmessage(s, f) ==
  /\ sock[s] = "OPEN"
  /\ _resetWatchdog
  /\ Ingested(IngestOne(IngestState, f, "live"))
  /\ UNCHANGED <<ws, sock, reconnectDelay, reconnectTimer, timerDelay,
                 intentionalClose, started, fetches, lastStatus, bookVars,
                 resp, lastOutcome>>

\* Faulty variant: no timer is armed.
_scheduleReconnect_Never ==
  UNCHANGED <<reconnectTimer, timerDelay>>

\* _scheduleReconnect(): the timer is armed with the current delay.
_scheduleReconnect ==
  /\ reconnectTimer' = TRUE
  /\ timerDelay' = reconnectDelay

\* ws.onclose of socket s: the connection of s is closed (by the transport,
\* by the server, or as the end of a close() call).
onclose(s) ==
  /\ sock[s] \in {"CONNECTING", "OPEN", "CLOSING"}
  /\ sock' = [sock EXCEPT ![s] = "CLOSED"]
  /\ _clearWatchdog
  /\ opened' = opened \ {s}
  /\ woke' = "none"
  /\ UNCHANGED <<started, intentionalClose>>
  /\ IF ~intentionalClose
       THEN /\ setStatus("disconnected")
            /\ _scheduleReconnect
            /\ closes' = Min(closes + 1, MaxCloses)
       ELSE UNCHANGED <<lastStatus, sinceDisc, reconnectTimer, timerDelay, closes>>
  /\ UNCHANGED <<ws, reconnectDelay, fetches, callerClosed, fires,
                 sinceVars, appVars, logVars>>

\* ---------------------------------------------------- Ntfy: the timers

\* The watchdog timer fires: if (ws) ws.close()
WatchdogFire ==
  /\ watchdogTimer
  /\ watchdogTimer' = FALSE
  /\ elapsed' = 0
  /\ sock' = CloseCall(ws)
  /\ UNCHANGED <<ws, reconnectDelay, reconnectTimer, timerDelay, intentionalClose,
                 started, fetches, lastStatus, bookVars, sinceVars, appVars, logVars>>

\* Faulty variant: the backoff timer doubles the delay without a ceiling.
ReconnectFire_NoCeiling(cap) ==
  /\ reconnectTimer
  /\ Room(cap)
  /\ reconnectTimer' = FALSE
  /\ timerDelay' = 0
  /\ reconnectDelay' = reconnectDelay * 2
  /\ fires' = Min(fires + 1, MaxFires)
  /\ woke' = "none"
  /\ UNCHANGED <<started, intentionalClose>>
  /\ _connect(cap)
  /\ UNCHANGED <<watchdogTimer, elapsed, closes, sinceVars, appVars, logVars>>

\* Faulty variant: the ceiling is applied before the doubling.
ReconnectFire_CeilingFirst(cap) ==
  /\ reconnectTimer
  /\ Room(cap)
  /\ reconnectTimer' = FALSE
  /\ timerDelay' = 0
  /\ reconnectDelay' = Min(reconnectDelay, MAX_RECONNECT_DELAY) * 2
  /\ fires' = Min(fires + 1, MaxFires)
  /\ woke' = "none"
  /\ UNCHANGED <<started, intentionalClose>>
  /\ _connect(cap)
  /\ UNCHANGED <<watchdogTimer, elapsed, closes, sinceVars, appVars, logVars>>

\* The backoff timer fires: the delay is doubled up to the ceiling, _connect().
ReconnectFire(cap) ==
  /\ reconnectTimer
  /\ Room(cap)
  /\ reconnectTimer' = FALSE
  /\ timerDelay' = 0
  /\ reconnectDelay' = Min(reconnectDelay * 2, MAX_RECONNECT_DELAY)
  /\ fires' = Min(fires + 1, MaxFires)
  /\ woke' = "none"
  /\ UNCHANGED <<started, intentionalClose>>
  /\ _connect(cap)
  /\ UNCHANGED <<watchdogTimer, elapsed, closes, sinceVars, appVars, logVars>>

\* -------------------------------------------------- Ntfy: wake triggers

\* visibilitychange to "visible"
Visible(cap) ==
  /\ started
  /\ Room(cap)
  /\ UNCHANGED <<started, intentionalClose>>
  /\ IF ~intentionalClose /\ (ws = 0 \/ sock[ws] \in {"CLOSED", "CLOSING"})
       THEN _forceReconnect(cap)
       ELSE /\ woke' = "kept"
            /\ UNCHANGED <<reconnectTimer, timerDelay, reconnectDelay, closes, fires,
                           ws, sock, lastStatus, sinceDisc, fetches, opened,
                           callerClosed>>
  /\ UNCHANGED <<watchdogTimer, elapsed, sinceVars, appVars, logVars>>

\* online
Online(cap) ==
  /\ started
  /\ Room(cap)
  /\ UNCHANGED <<started, intentionalClose>>
  /\ IF ~intentionalClose
       THEN _forceReconnect(cap)
       ELSE /\ woke' = "kept"
            /\ UNCHANGED <<reconnectTimer, timerDelay, reconnectDelay, closes, fires,
                           ws, sock, lastStatus, sinceDisc, fetches, opened,
                           callerClosed>>
  /\ UNCHANGED <<watchdogTimer, elapsed, sinceVars, appVars, logVars>>

\* ------------------------------------------------ Ntfy: catch-up fetch

\* Sequences of at most n elements of S.
SeqUpTo(S, n) == UNION {[1..k -> S] : k \in 0..n}

\* _fetchRecent() after its awaits: the fetch failed or was not ok (nothing
\* happens), or every line of the response is parsed and processed.
FetchFailed ==
  /\ fetches > 0
  /\ fetches' = fetches - 1
  /\ UNCHANGED <<ws, sock, reconnectDelay, reconnectTimer, timerDelay, intentionalClose,
                 started, watchdogTimer, elapsed, lastStatus, bookVars, sinceVars, appVars, logVars>>

FetchLines(lines) ==
  /\ fetches > 0
  /\ fetches' = fetches - 1
  /\ Ingested(IngestAll(IngestState, lines, "catchup"))
  /\ UNCHANGED <<ws, sock, reconnectDelay, reconnectTimer, timerDelay, intentionalClose,
                 started, watchdogTimer, elapsed, lastStatus, bookVars, resp, lastOutcome>>

\* ------------------------------------------------- App: handleResponse

One(r) == SetToBag({r})

\* notification.answered = true; notification.answeredWith = responseBody
\* on the notification object the invocation holds (an object that the clear
\* button removed from the list is no longer in `notifications`).
MarkAnswered(ns, r) ==
  IF r.orphan
    THEN ns
    ELSE [j \in 1..Len(ns) |->
            IF ns[j].id = r.id
              THEN [ns[j] EXCEPT !.answered = TRUE, !.answeredWith = r.body]
              ELSE ns[j]]

\* Faulty variant: the notification is marked only if a publish succeeded.
Finish_OnlyOnSuccess(r, ok, retry) ==
  /\ notifications' = IF ok \/ retry = "ok"
                        THEN MarkAnswered(notifications, r) ELSE notifications
  /\ resp' = resp (-) One(r)
  /\ lastOutcome' = [ok |-> ok, retry |-> retry, posts |-> r.posts]

\* The end of handleResponse (lines 124-127) of the invocation r; ok is the
\* value of the first Ntfy.respond, retry what became of the second.
Finish(r, ok, retry) ==
  /\ notifications' = MarkAnswered(notifications, r)
  /\ resp' = resp (-) One(r)
  /\ lastOutcome' = [ok |-> ok, retry |-> retry, posts |-> r.posts]

\* A click on a response button: handleResponse(notifId, responseBody) up to
\* its first await, the POST of the first Ntfy.respond being sent.
handleResponse(id, body) ==
  /\ BagCardinality(resp) < MaxResp
  /\ \E j \in 1..Len(notifications) :
       notifications[j].id = id /\ ~notifications[j].answered
  /\ resp' = resp (+) One([id |-> id, body |-> body, stage |-> "post1",
                           posts |-> 1, orphan |-> FALSE])
  /\ UNCHANGED <<connVars, sinceVars, bookVars, notifications, seenIds, storedSeen, logVars>>

\* Faulty variant: a failed first publish is not retried.
respond_NoRetry(r, ok) ==
  /\ BagIn(r, resp)
  /\ r.stage \in {"post1", "post2"}
  /\ Finish(r, ok /\ r.stage = "post1", "none")
  /\ UNCHANGED <<connVars, sinceVars, bookVars, seenIds, storedSeen, ingVars>>

\* Ntfy.respond(body) of the invocation r resolves: true if the fetch
\* resolved, false if it threw.  After the first call: done if ok, else wait
\* 1000 ms.  After the second call its result is dropped.
respond(r, ok) ==
  /\ BagIn(r, resp)
  /\ r.stage \in {"post1", "post2"}
  /\ IF r.stage = "post1"
       THEN IF ok
              THEN Finish(r, TRUE, "none")
              ELSE /\ resp' = (resp (-) One(r)) (+) One([r EXCEPT !.stage = "wait"])
                   /\ UNCHANGED <<notifications, lastOutcome>>
       ELSE Finish(r, FALSE, IF ok THEN "ok" ELSE "fail")
  /\ UNCHANGED <<connVars, sinceVars, bookVars, seenIds, storedSeen, ingVars>>

\* The 1000 ms timer of the retry of the invocation r fires: the second
\* Ntfy.respond is called.
RetryTimer(r) ==
  /\ BagIn(r, resp)
  /\ r.stage = "wait"
  /\ resp' = (resp (-) One(r)) (+)
             One([r EXCEPT !.stage = "post2", !.posts = @ + 1])
  /\ UNCHANGED <<connVars, sinceVars, bookVars, notifications, seenIds, storedSeen, logVars>>

\* The invocations in flight, each holding a notification the list lost.
Orphaned(b) ==
  LET S == BagToSet(b)
      T == {[r EXCEPT !.orphan = TRUE] : r \in S}
  IN  [t \in T |->
         (IF t \in S THEN b[t] ELSE 0) +
         (IF [t EXCEPT !.orphan = FALSE] \in S THEN b[[t EXCEPT !.orphan = FALSE]] ELSE 0)]

\* The clear-history button.
ClearHistory ==
  /\ notifications' = <<>>
  /\ seenIds' = <<>>
  /\ storedSeen' = saveSeen(<<>>)
  /\ resp' = Orphaned(resp)
  /\ cbIds' = {}
  /\ dupCall' = FALSE
  /\ paths' = {}
  /\ UNCHANGED <<connVars, sinceVars, bookVars, lastTime, lastOutcome>>

\* ------------------------------------------------------------------- Push
\* src/js/push.js.  Every operation is an async function: one action per
\* segment between two awaits.  One invocation of each operation may be
\* running, and the three interleave.
ntfyVars == <<connVars, sinceVars, bookVars, appVars, logVars, classVars, provider,
             clockVars>>
platVars == <<supported, permission, prompts, subscription, subscribes, _vapidKey>>

Outcomes == {"ok", "status", "network"}    \* of a request: res.ok, !res.ok, rejected

At(op, pc)   == pcall[op].pc = pc
Goto(op, r)  == pcall' = [pcall EXCEPT ![op] = r]
Request(op, method, e, topics) ==
  [by |-> op, method |-> method, endpoint |-> e, topics |-> topics]
RequestOf(op) == {q \in inflight : q.by = op}

\* The caller has seen the operation's promise settle.
Return(op) ==
  /\ pcall[op].pc \in {"done", "failed"}
  /\ Goto(op, Idle)
  /\ UNCHANGED <<ntfyVars, platVars, registry, inflight>>

\* _registerWithNtfy up to its await: the POST is sent.
_registerWithNtfy(op, sub, topics) ==
  /\ inflight' = inflight \cup {Request(op, "POST", sub[1], topics)}
  /\ Goto(op, [pcall[op] EXCEPT !.pc = "register", !.sub = sub])

\* _registerWithNtfy after its await: !res.ok and a rejected fetch throw.
Registered(op, o) ==
  /\ At(op, "register")
  /\ inflight' = inflight \ RequestOf(op)
  /\ IF o = "ok"
       THEN /\ registry' = [registry EXCEPT ![pcall[op].sub[1]] = Some(pcall[op].topics)]
            /\ Goto(op, [pcall[op] EXCEPT !.pc = "done"])
       ELSE /\ Goto(op, [pcall[op] EXCEPT !.pc = "failed", !.cause = "provider"])
            /\ UNCHANGED registry
  /\ UNCHANGED <<ntfyVars, platVars>>

\* subscribe up to "await Notification.requestPermission()".
subscribe(topics) ==
  /\ At("subscribe", "idle")
  /\ IF ~supported
       THEN /\ Goto("subscribe", [Idle EXCEPT !.pc = "failed", !.cause = "unsupported",
                                              !.topics = topics])
            /\ UNCHANGED prompts
       ELSE /\ prompts < MaxPrompts
            /\ prompts' = prompts + 1
            /\ Goto("subscribe", [Idle EXCEPT !.pc = "permission", !.topics = topics])
  /\ UNCHANGED <<ntfyVars, supported, permission, subscription, subscribes, _vapidKey,
                 registry, inflight>>

\* The permission request settles: a permission already decided is returned
\* as it is, otherwise the user grants, denies or dismisses the prompt.
subscribe_Permission(perm) ==
  /\ At("subscribe", "permission")
  /\ perm \in (IF permission = "default" THEN {"granted", "denied", "default"}
                                         ELSE {permission})
  /\ permission' = perm
  /\ IF perm # "granted"
       THEN Goto("subscribe", [pcall["subscribe"] EXCEPT !.pc = "failed",
                                                         !.cause = "permission"])
       ELSE Goto("subscribe", [pcall["subscribe"] EXCEPT !.pc = "key"])
  /\ UNCHANGED <<ntfyVars, supported, prompts, subscription, subscribes, _vapidKey,
                 registry, inflight>>

\* _getVapidKey: the cached key, or the provider's configuration is fetched.
ConfigOutcomes == Outcomes \cup {"nokey"}

subscribe_VapidKey(o) ==
  /\ At("subscribe", "key")
  /\ IF _vapidKey
       THEN /\ o = "ok"
            /\ Goto("subscribe", [pcall["subscribe"] EXCEPT !.pc = "platform"])
            /\ UNCHANGED _vapidKey
       ELSE IF o = "ok"
         THEN /\ _vapidKey' = TRUE
              /\ Goto("subscribe", [pcall["subscribe"] EXCEPT !.pc = "platform"])
         ELSE /\ Goto("subscribe", [pcall["subscribe"] EXCEPT !.pc = "failed",
                                                              !.cause = "config"])
              /\ UNCHANGED _vapidKey
  /\ UNCHANGED <<ntfyVars, supported, permission, prompts, subscription, subscribes,
                 registry, inflight>>

\* pushManager.subscribe settles: it returns the existing subscription or
\* creates one, or it rejects.  Then _registerWithNtfy sends the POST.
subscribe_Platform(ok) ==
  /\ At("subscribe", "platform")
  /\ IF ~ok
       THEN /\ Goto("subscribe", [pcall["subscribe"] EXCEPT !.pc = "failed",
                                                            !.cause = "platform"])
            /\ UNCHANGED <<subscription, subscribes, inflight>>
       ELSE IF subscription # Missing
         THEN /\ _registerWithNtfy("subscribe", subscription, pcall["subscribe"].topics)
              /\ UNCHANGED <<subscription, subscribes>>
         ELSE /\ subscribes < MaxSubs
              /\ subscribes' = subscribes + 1
              /\ subscription' = Some(subscribes + 1)
              /\ _registerWithNtfy("subscribe", Some(subscribes + 1),
                                   pcall["subscribe"].topics)
  /\ UNCHANGED <<ntfyVars, supported, permission, prompts, _vapidKey, registry>>

subscribe_Registered(o) ==
  Registered("subscribe", o)

\* updateTopics up to "await navigator.serviceWorker.ready".
updateTopics(topics) ==
  /\ At("updateTopics", "idle")
  /\ Goto("updateTopics", [Idle EXCEPT !.pc = "ready", !.topics = topics])
  /\ UNCHANGED <<ntfyVars, platVars, registry, inflight>>

\* Faulty variant: subscribes anew instead of reading the subscription.
updateTopics_Sub_Resubscribe ==
  /\ At("updateTopics", "ready")
  /\ subscribes < MaxSubs
  /\ subscribes' = subscribes + 1
  /\ subscription' = Some(subscribes + 1)
  /\ _registerWithNtfy("updateTopics", Some(subscribes + 1), pcall["updateTopics"].topics)
  /\ UNCHANGED <<ntfyVars, supported, permission, prompts, _vapidKey, registry>>

\* getSubscription settles: "if (!sub) return", else _registerWithNtfy.
updateTopics_Sub ==
  /\ At("updateTopics", "ready")
  /\ IF subscription = Missing
       THEN /\ Goto("updateTopics", [pcall["updateTopics"] EXCEPT !.pc = "done"])
            /\ UNCHANGED inflight
       ELSE _registerWithNtfy("updateTopics", subscription, pcall["updateTopics"].topics)
  /\ UNCHANGED <<ntfyVars, platVars, registry>>

updateTopics_Registered(o) ==
  Registered("updateTopics", o)

\* unsubscribe up to "await navigator.serviceWorker.ready".
unsubscribe ==
  /\ At("unsubscribe", "idle")
  /\ Goto("unsubscribe", [Idle EXCEPT !.pc = "ready"])
  /\ UNCHANGED <<ntfyVars, platVars, registry, inflight>>

\* getSubscription settles: "if (!sub) return", else the DELETE is sent.
unsubscribe_Sub ==
  /\ At("unsubscribe", "ready")
  /\ IF subscription = Missing
       THEN /\ Goto("unsubscribe", [pcall["unsubscribe"] EXCEPT !.pc = "done"])
            /\ UNCHANGED inflight
       ELSE /\ inflight' = inflight \cup {Request("unsubscribe", "DELETE", subscription[1], {})}
            /\ Goto("unsubscribe", [pcall["unsubscribe"] EXCEPT !.pc = "delete",
                                                                !.sub = subscription])
  /\ UNCHANGED <<ntfyVars, platVars, registry>>

\* Faulty variant: without the catch, a rejected DELETE ends the operation.
unsubscribe_Deleted_NoCatch(o) ==
  /\ At("unsubscribe", "delete")
  /\ inflight' = inflight \ RequestOf("unsubscribe")
  /\ registry' = IF o = "ok" THEN [registry EXCEPT ![pcall["unsubscribe"].sub[1]] = Missing]
                             ELSE registry
  /\ IF o = "network"
       THEN Goto("unsubscribe", [pcall["unsubscribe"] EXCEPT !.pc = "failed",
                                                             !.cause = "provider"])
       ELSE Goto("unsubscribe", [pcall["unsubscribe"] EXCEPT !.pc = "teardown"])
  /\ UNCHANGED <<ntfyVars, platVars>>

\* The DELETE settles: the response is not looked at, a rejection is caught.
unsubscribe_Deleted(o) ==
  /\ At("unsubscribe", "delete")
  /\ inflight' = inflight \ RequestOf("unsubscribe")
  /\ registry' = IF o = "ok" THEN [registry EXCEPT ![pcall["unsubscribe"].sub[1]] = Missing]
                             ELSE registry
  /\ Goto("unsubscribe", [pcall["unsubscribe"] EXCEPT !.pc = "teardown"])
  /\ UNCHANGED <<ntfyVars, platVars>>

\* sub.unsubscribe() settles: the platform drops the subscription, or rejects.
unsubscribe_Teardown(ok) ==
  /\ At("unsubscribe", "teardown")
  /\ IF ok
       THEN /\ subscription' = IF subscription = pcall["unsubscribe"].sub
                                 THEN Missing ELSE subscription
            /\ Goto("unsubscribe", [pcall["unsubscribe"] EXCEPT !.pc = "done"])
       ELSE /\ Goto("unsubscribe", [pcall["unsubscribe"] EXCEPT !.pc = "failed",
                                                                !.cause = "platform"])
            /\ UNCHANGED subscription
  /\ UNCHANGED <<ntfyVars, supported, permission, prompts, subscribes, _vapidKey,
                 registry, inflight>>

\* ------------------------------------------------------ specifications

\* The connection manager: every operation and event of Ntfy that touches the
\* socket, the timers and the status.  The frames are keepalives and
\* unparsable frames, the catch-up responses carry no message.
ConnCap == [s |-> MaxSockets, f |-> MaxFetches]

Next ==
  /\ \/ connect(ConnCap)
     \/ disconnect
     \/ \E s \in Slots : onopen(s)
     \/ \E s \in Slots, f \in Frames({}) : onmessage(s, f)
     \/ \E s \in Slots : onclose(s)
     \/ WatchdogFire
     \/ ReconnectFire(ConnCap)
     \/ Visible(ConnCap)
     \/ Online(ConnCap)
     \/ FetchFailed
     \/ FetchLines(<<>>)
  /\ UNCHANGED <<classVars, pushVars, provider, clockVars>>

Spec == Init /\ [][Next]_vars

\* The connection manager under fair scheduling: a pending backoff timer
\* fires (setTimeout), a socket whose close() was called gets its close
\* event, a catch-up fetch settles.  Wake triggers, connect(), disconnect(),
\* frames and failures of open sockets happen or not.
CloseEvent(s) == sock[s] = "CLOSING" /\ onclose(s) /\ UNCHANGED <<classVars, pushVars, provider, clockVars>>
TimerEvent    == ReconnectFire(ConnCap) /\ UNCHANGED <<classVars, pushVars, provider, clockVars>>
FetchSettles  == (FetchFailed \/ FetchLines(<<>>)) /\ UNCHANGED <<classVars, pushVars, provider, clockVars>>

Fairness ==
  /\ WF_vars(TimerEvent)
  /\ WF_vars(FetchSettles)
  /\ \A s \in Slots : WF_vars(CloseEvent(s))

SpecLive == Init /\ [][Next]_vars /\ Fairness

\* Ingestion: the two delivery paths, the orchestrator's deduplication and
\* the high-water mark, over one socket at a time.
IngestCap == [s |-> 1, f |-> 1]

NextIngest ==
  /\ \/ connect(IngestCap)
     \/ disconnect
     \/ onopen(1)
     \/ \E f \in Frames(Msgs) : onmessage(1, f)
     \/ onclose(1)
     \/ FetchFailed
     \/ \E lines \in SeqUpTo(Frames(Msgs) \ {Keepalive}, MaxLines) : FetchLines(lines)
     \/ ClearHistory
  /\ UNCHANGED <<classVars, pushVars, provider, clockVars>>

SpecIngest == Init /\ [][NextIngest]_vars

\* Responses: notifications arrive over the live socket and the user answers.
RespIds  == {1, 2}
RespMsgs == [id : RespIds, time : {0}]

NextResp ==
  /\ \/ connect(IngestCap)
     \/ onopen(1)
     \/ \E m \in RespMsgs : onmessage(1, [kind |-> "message", msg |-> m])
     \/ \E id \in RespIds, body \in Bodies : handleResponse(id, body)
     \/ \E r \in BagToSet(resp), ok \in BOOLEAN : respond(r, ok)
     \/ \E r \in BagToSet(resp) : RetryTimer(r)
  /\ UNCHANGED <<classVars, pushVars, provider, clockVars>>

SpecResp == Init /\ [][NextResp]_vars

\* The classifier: _processMessage makes the notification's type, actions and
\* correlation id of a parsed message.
Classify ==
  /\ made = NoMade
  /\ made' = Made(raw)
  /\ UNCHANGED <<raw, connVars, sinceVars, bookVars, appVars, logVars, pushVars, provider, clockVars>>

InitClassify ==
  /\ InitProgram
  /\ raw \in RawMsgs
  /\ made = NoMade
  /\ FreshPush
  /\ now = Clock

SpecClassify == InitClassify /\ [][Classify]_vars

\* Push: the three operations against every outcome of the permission
\* prompt, the platform and the provider.  The installation is fresh or holds
\* a subscription of an earlier session.
InitPushAny ==
  /\ InitProgram
  /\ now = Clock
  /\ raw = NoRaw
  /\ made = NoMade
  /\ InitPush
  /\ supported \in BOOLEAN
  /\ \/ /\ permission \in {"default", "denied"}
        /\ subscription = Missing
        /\ subscribes = 0
        /\ registry = [e \in Endpoints |-> Missing]
     \/ /\ permission = "granted"
        /\ subscription = Some(1)
        /\ subscribes = 1
        /\ \E t \in TopicSets : registry = [e \in Endpoints |-> IF e = 1 THEN Some(t) ELSE Missing]

NextPush ==
  \/ \E topics \in TopicSets : subscribe(topics)
  \/ \E perm \in {"granted", "denied", "default"} : subscribe_Permission(perm)
  \/ \E o \in ConfigOutcomes : subscribe_VapidKey(o)
  \/ \E ok \in BOOLEAN : subscribe_Platform(ok)
  \/ \E o \in Outcomes : subscribe_Registered(o)
  \/ \E topics \in TopicSets : updateTopics(topics)
  \/ updateTopics_Sub
  \/ \E o \in Outcomes : updateTopics_Registered(o)
  \/ unsubscribe
  \/ unsubscribe_Sub
  \/ \E o \in Outcomes : unsubscribe_Deleted(o)
  \/ \E ok \in BOOLEAN : unsubscribe_Teardown(ok)
  \/ \E op \in Ops : Return(op)

SpecPush == InitPushAny /\ [][NextPush]_vars

\* One connection attempt against the provider.  `new WebSocket` and the
\* poll request of _fetchRecent travel on connections of their own: the
\* provider subscribes the socket to the topic and serves the poll in either
\* order, and messages are published at any moment.
\*   log      the messages published since the attempt started
\*   polled   the poll's response, once the provider has served it
\*   joined   the length of log when the provider subscribed the socket
\*   pushed   how many messages the provider has sent down the socket
\*   fetched  how the catch-up fetch ended
FeedStart ==
  /\ connect(IngestCap)
  /\ provider' = NewAttempt
  /\ UNCHANGED <<classVars, pushVars, clockVars>>

Publish ==
  /\ started
  /\ Len(provider.log) < MaxMsg
  /\ provider' = [provider EXCEPT !.log =
       Append(@, [id |-> Len(@) + 1, time |-> TimeBase + Min(Len(@) + 1, MaxTime)])]
  /\ UNCHANGED <<connVars, sinceVars, bookVars, appVars, logVars, classVars, pushVars, clockVars>>

\* The provider answers GET /json?poll=1&since=...: everything published so far.
PollServed ==
  /\ fetches > 0
  /\ provider.polled = Missing
  /\ provider' = [provider EXCEPT !.polled = Some(provider.log)]
  /\ UNCHANGED <<connVars, sinceVars, bookVars, appVars, logVars, classVars, pushVars, clockVars>>

\* The provider accepts the WebSocket and subscribes it to the topic: it will
\* send the messages published from now on.
SocketJoined ==
  /\ sock[1] = "CONNECTING"
  /\ provider.joined = Missing
  /\ provider' = [provider EXCEPT !.joined = Some(Len(provider.log))]
  /\ UNCHANGED <<connVars, sinceVars, bookVars, appVars, logVars, classVars, pushVars, clockVars>>

\* Faulty variant: the socket is dealt with only once the fetch has settled.
FeedOpen_AfterFetch ==
  /\ provider.fetched # "pending"
  /\ provider.joined # Missing
  /\ onopen(1)
  /\ UNCHANGED <<classVars, pushVars, provider, clockVars>>

FeedOpen ==
  /\ provider.joined # Missing
  /\ onopen(1)
  /\ UNCHANGED <<classVars, pushVars, provider, clockVars>>

\* The next message the socket is owed arrives.
Owed == provider.joined[1] + provider.pushed

FeedLive ==
  /\ provider.joined # Missing
  /\ Owed < Len(provider.log)
  /\ onmessage(1, [kind |-> "message", msg |-> provider.log[Owed + 1]])
  /\ provider' = [provider EXCEPT !.pushed = @ + 1]
  /\ UNCHANGED <<classVars, pushVars, clockVars>>

RECURSIVE AsLines(_)
AsLines(ms) ==
  IF ms = <<>> THEN <<>>
  ELSE <<[kind |-> "message", msg |-> Head(ms)]>> \o AsLines(Tail(ms))

FeedFetched ==
  /\ provider.polled # Missing
  /\ provider.fetched = "pending"
  /\ FetchLines(AsLines(provider.polled[1]))
  /\ provider' = [provider EXCEPT !.fetched = "ok"]
  /\ UNCHANGED <<classVars, pushVars, clockVars>>

FeedFetchFailed ==
  /\ provider.fetched = "pending"
  /\ FetchFailed
  /\ provider' = [provider EXCEPT !.fetched = "failed"]
  /\ UNCHANGED <<classVars, pushVars, clockVars>>

FeedClose ==
  /\ onclose(1)
  /\ UNCHANGED <<classVars, pushVars, provider, clockVars>>

NextFeed ==
  \/ FeedStart
  \/ Publish
  \/ PollServed
  \/ SocketJoined
  \/ FeedOpen
  \/ FeedLive
  \/ FeedFetched
  \/ FeedFetchFailed
  \/ FeedClose

SpecFeed == Init /\ [][NextFeed]_vars

\* The since parameter of the catch-up poll.  The page loads at some second
\* with a mark in localStorage of some age (or none, or one of the near
\* future: the provider's clock is ahead), connects, and the caller may
\* disconnect and connect again.
\*   const fallback = Math.floor(Date.now() / 1000) - 3600;
\*   const since = lastSince ? Math.max(lastSince - 5, fallback) : fallback;
since(ls, t) ==
  LET fallback == t - LOOKBACK
  IN  IF ls # 0
        THEN (IF ls - OVERLAP > fallback THEN ls - OVERLAP ELSE fallback)
        ELSE fallback

Ages ==
  (-MaxSkew .. OVERLAP + MaxSkew)
    \cup {LOOKBACK - OVERLAP + d : d \in -MaxSkew .. MaxSkew}
    \cup {LOOKBACK + d : d \in 0 .. MaxSkew}

Nows == {Clock + t : t \in 0..MaxTick}

InitSince ==
  /\ InitState
  /\ raw = NoRaw
  /\ made = NoMade
  /\ FreshPush
  /\ now \in Nows
  /\ storedSince \in {<<>>} \cup {String(now - a) : a \in Ages}

ConnectSince ==
  /\ connect(IngestCap)
  /\ asked' = Some(since(lastSince', now))
  /\ UNCHANGED <<classVars, pushVars, provider, now, lastFrame, lastLines>>

DisconnectSince ==
  /\ disconnect
  /\ UNCHANGED <<classVars, pushVars, provider, clockVars>>

CloseSince ==
  /\ onclose(1)
  /\ UNCHANGED <<classVars, pushVars, provider, clockVars>>

FetchSince ==
  /\ FetchLines(<<>>)
  /\ UNCHANGED <<classVars, pushVars, provider, clockVars>>

NextSince ==
  \/ ConnectSince
  \/ DisconnectSince
  \/ CloseSince
  \/ FetchSince

SpecSince == InitSince /\ [][NextSince]_vars

\* Frames on one socket while the watchdog runs.  Time passes (Elapse) while
\* the watchdog is pending; it fires at any moment the model chooses.
FrameMsgs == [id : {1, 2}, time : {0, TimeBase + 1}]

Elapse ==
  /\ watchdogTimer
  /\ elapsed < MaxElapsed
  /\ elapsed' = elapsed + 1
  /\ UNCHANGED <<ws, sock, reconnectDelay, reconnectTimer, timerDelay, intentionalClose,
                 started, watchdogTimer, fetches, lastStatus, sinceVars, bookVars,
                 appVars, logVars>>

FrameArrives(f) ==
  /\ onmessage(1, f)
  /\ lastFrame' = [kind |-> f.kind, after |-> elapsed, prev |-> "none"]

NextFrames ==
  /\ \/ \E f \in Frames(FrameMsgs) : FrameArrives(f)
     \/ /\ \/ connect(IngestCap)
           \/ onopen(1)
           \/ Elapse
           \/ WatchdogFire
           \/ onclose(1)
           \/ ReconnectFire(IngestCap)
           \/ FetchFailed
           \/ \E lines \in SeqUpTo(Frames(FrameMsgs) \ {Keepalive}, 2) : FetchLines(lines)
        /\ UNCHANGED lastFrame
  /\ UNCHANGED <<classVars, pushVars, provider, now, asked, lastLines>>

SpecFrames == Init /\ [][NextFrames]_vars

\* Bad frames and lines among good ones, on one socket.
DropMsgs   == [id : {1, 2}, time : {TimeBase + 1}]
DropFrames == {Garbage, Broken} \cup DataFrames(DropMsgs)

FrameAfter(f) ==
  /\ onmessage(1, f)
  /\ lastFrame' = [kind |-> f.kind, after |-> elapsed, prev |-> lastFrame.kind]
  /\ UNCHANGED lastLines

LinesArrive(lines) ==
  /\ FetchLines(lines)
  /\ lastLines' = lines
  /\ UNCHANGED lastFrame

NextDrop ==
  /\ \/ \E f \in DropFrames : FrameAfter(f)
     \/ \E lines \in SeqUpTo(DropFrames, 2) : LinesArrive(lines)
     \/ /\ \/ connect(IngestCap)
           \/ onopen(1)
           \/ onclose(1)
        /\ UNCHANGED <<lastFrame, lastLines>>
  /\ UNCHANGED <<classVars, pushVars, provider, now, asked>>

SpecDrop == Init /\ [][NextDrop]_vars

\* A long session: messages with fresh ids arrive on the open socket one
\* after another (the id is the arrival number), now and then the first one
\* again.
SeenFrame(id) ==
  /\ Len(seenIds) <= SEEN_CAP
  /\ id \in {1, Len(seenIds) + 1}
  /\ onmessage(1, [kind |-> "message", msg |-> [id |-> id, time |-> 0]])

NextSeen ==
  /\ \/ connect(IngestCap)
     \/ onopen(1)
     \/ \E id \in 1..(SEEN_CAP + 1) : SeenFrame(id)
  /\ UNCHANGED <<classVars, pushVars, provider, clockVars>>

SpecSeen == Init /\ [][NextSeen]_vars

\* ------------------------------------------------------------ the claims

\* The notifications of the list with the given id.
Count(id) == Cardinality({j \in 1..Len(notifications) : notifications[j].id = id})
SeenCount(id) == Cardinality({j \in 1..Len(seenIds) : seenIds[j] = id})

\* C1 -- Idempotence of ingestion: whatever paths delivered a message id, in
\* whatever order and however often, the notification list holds exactly one
\* notification with that id (and none with an id that was not delivered
\* since the list was last cleared).
C1_Idempotent ==
  \A id \in Ids : Count(id) = IF id \in cbIds THEN 1 ELSE 0

\* One id only was delivered, more than once, by the live socket and by the
\* catch-up fetch, and the list holds it once.
C1_Witness ==
  \E id \in Ids :
    /\ cbIds = {id}
    /\ dupCall
    /\ paths = Paths
    /\ Count(id) = 1

\* C2 as stated -- the callback is invoked exactly once per message id: it
\* is never invoked again with an id it was already invoked with.
C2_Original == ~dupCall

\* C2 amended -- the connection manager invokes the callback for every
\* delivery, duplicates included; the duplicate is dropped inside the
\* callback, handleMessage, by the Seen-Set: every id the callback was invoked
\* with is in the Seen-Set exactly once, and the list has one notification
\* per entry of the Seen-Set.
C2_Amended ==
  /\ \A id \in Ids : SeenCount(id) = IF id \in cbIds THEN 1 ELSE 0
  /\ Len(notifications) = Len(seenIds)

\* The callback was invoked twice with the same id, by both paths, and the
\* Seen-Set and the list hold it once.
C2_Witness ==
  \E id \in Ids :
    /\ dupCall
    /\ cbIds = {id}
    /\ paths = Paths
    /\ seenIds = <<id>>
    /\ Len(notifications) = 1

\* C3 as stated -- the close event of a socket that disconnect() closed,
\* arriving after a new connect() has replaced it, schedules no reconnect,
\* emits no status and leaves the watchdog alone.
C3_Claim ==
  [][\A s \in Slots :
       (s \in callerClosed /\ s # ws /\ sock[s] = "CLOSING" /\ sock'[s] = "CLOSED")
         => /\ reconnectTimer' = reconnectTimer
            /\ lastStatus' = lastStatus
            /\ watchdogTimer' = watchdogTimer]_vars

\* C4 -- after disconnect() and until the next connect(): no backoff timer
\* and no watchdog is pending, no socket is open or opening (no attempt is
\* made), and the status callback has received 'disconnected' exactly once.
C4_DisconnectStops ==
  intentionalClose =>
    /\ ~reconnectTimer
    /\ ~watchdogTimer
    /\ \A s \in Slots : sock[s] \in {"CLOSING", "CLOSED"}
    /\ sinceDisc = 1
    /\ lastStatus = "disconnected"

\* disconnect() closed the current socket, whose close event has arrived.
C4_Witness ==
  /\ intentionalClose
  /\ ws # 0
  /\ ws \in callerClosed
  /\ sock[ws] = "CLOSED"

\* The persisted mark as a number (0: nothing stored).
StoredMark == IF storedSince = <<>> THEN 0 ELSE parseInt(storedSince)

C6_Original ==
  (reconnectTimer /\ closes >= 1 /\ closes < MaxCloses)
    => timerDelay = Min(FLOOR * Pow2(closes), MAX_RECONNECT_DELAY)

\* C6 amended -- the timer armed by an unexpected close waits
\* min(floor * 2^k, ceiling), k being the number of backoff-timer firings
\* since the last successful open or wake trigger: the first retry waits the
\* floor, and the delay doubles when the timer fires, not when it is armed.
C6_Amended ==
  [][(\E s \in Slots : sock[s] # "CLOSED" /\ sock'[s] = "CLOSED" /\ ~intentionalClose)
       => /\ reconnectTimer'
          /\ timerDelay' = Min(FLOOR * Pow2(fires), MAX_RECONNECT_DELAY)]_vars

\* The timer is armed after four firings: 16000 ms cut to the ceiling.
C6_Witness ==
  /\ reconnectTimer
  /\ fires = 4
  /\ timerDelay = MAX_RECONNECT_DELAY

\* C7 as stated -- the unexpected close of the current socket, once it has
\* been open, arms the backoff timer with the floor delay.
C7_Claim ==
  [][\A s \in Slots :
       (s = ws /\ s \in opened /\ s \notin callerClosed /\ ~intentionalClose
          /\ sock[s] # "CLOSED" /\ sock'[s] = "CLOSED")
         => (reconnectTimer' /\ timerDelay' = FLOOR)]_vars

\* C8 as stated -- while the current socket is open the watchdog is armed
\* (silence will be noticed) and the delay of the reconnect that follows it
\* is the floor.
C8_Claim ==
  (ws # 0 /\ sock[ws] = "OPEN") => (watchdogTimer /\ reconnectDelay = FLOOR)

\* The notification with the given id (there is one).
NotifById(ns, id) == ns[CHOOSE j \in 1..Len(ns) : ns[j].id = id]

\* C9 as stated -- a notification that is answered never changes again: the
\* (answered, answeredWith) pair is written once, whatever handleResponse
\* invocations are in flight.
C9_Claim ==
  [][\A id \in Ids :
       (HasNotif(notifications, id) /\ NotifById(notifications, id).answered)
         => /\ HasNotif(notifications', id)
            /\ NotifById(notifications', id) = NotifById(notifications, id)]_vars

\* C10 as stated -- a respond call that has returned false has made both
\* publish attempts (an invocation waiting for its retry holds the false that
\* its respond call returned).
C10_Original ==
  \A r \in BagToSet(resp) : r.stage = "wait" => r.posts = 2

\* C10 amended -- Ntfy.respond makes one publish attempt and returns false as
\* soon as that attempt throws; the single retry, one second later, is made
\* by handleResponse, which drops its result.  One accepted user response
\* causes one post when the first attempt succeeds and two when it fails.
C10_Amended ==
  /\ \A r \in BagToSet(resp) :
       r.posts = IF r.stage = "post2" THEN 2 ELSE 1
  /\ lastOutcome # NoOutcome =>
       IF lastOutcome.ok
         THEN lastOutcome.posts = 1 /\ lastOutcome.retry = "none"
         ELSE lastOutcome.posts = 2 /\ lastOutcome.retry \in {"ok", "fail"}

\* The first attempt failed, Ntfy.respond returned false, the retry succeeded.
C10_Witness == lastOutcome = [ok |-> FALSE, retry |-> "ok", posts |-> 2]

\* The invocation r ends in this step.
Ends(r) == BagIn(r, resp) /\ resp' = resp (-) One(r)

\* C11 -- a notification is marked answered only in the step in which an
\* invocation of handleResponse for it ends, its publish (the first attempt
\* if that succeeded, else the retry) having resolved in that step, and the
\* body written is that invocation's; and every invocation that ends marks
\* its notification, whether a publish succeeded or both attempts failed.
C11_AnsweredAfterPublish ==
  [][/\ \A id \in Ids :
          (/\ HasNotif(notifications, id)
           /\ NotifById(notifications', id) # NotifById(notifications, id))
            => \E r \in BagToSet(resp) :
                 /\ Ends(r)
                 /\ r.id = id
                 /\ r.stage \in {"post1", "post2"}
                 /\ r.stage = "post1" => lastOutcome'.ok
                 /\ NotifById(notifications', id) =
                      [id |-> id, answered |-> TRUE, answeredWith |-> r.body]
     /\ \A r \in BagToSet(resp) :
          Ends(r) => /\ NotifById(notifications', r.id).answered
                     /\ NotifById(notifications', r.id).answeredWith = r.body]_vars

\* Both attempts of the last response to end failed, none is in flight, and
\* one notification is marked answered.
C11_Witness ==
  /\ lastOutcome = [ok |-> FALSE, retry |-> "fail", posts |-> 2]
  /\ resp = EmptyBag
  /\ \E j \in 1..Len(notifications) : notifications[j].answered
  /\ Cardinality({j \in 1..Len(notifications) : notifications[j].answered}) = 1

\* A wake listener runs: the page became visible or the network came back.
WakeTrigger == Visible(ConnCap) \/ Online(ConnCap)

\* C12 -- a wake trigger received while the caller has not disconnected and
\* the socket is neither open nor opening leaves no backoff timer pending,
\* sets the delay to the floor and creates a socket (with its catch-up fetch)
\* in the same step; received while the socket is open or opening it creates
\* no socket and changes none.
C12_WakeReconnects ==
  [][WakeTrigger =>
       /\ (~intentionalClose /\ CanConnect) =>
            /\ ~reconnectTimer'
            /\ reconnectDelay' = FLOOR
            /\ sock[ws'] = "CLOSED"
            /\ sock'[ws'] = "CONNECTING"
            /\ fetches' = fetches + 1
            /\ lastStatus' = "reconnecting"
       /\ ~CanConnect => (ws' = ws /\ sock' = sock /\ fetches' = fetches)]_vars

\* A wake trigger has just cancelled a pending backoff timer and created the
\* socket that is now connecting.
C12_Witness ==
  /\ woke = "cancelled"
  /\ ~reconnectTimer
  /\ reconnectDelay = FLOOR
  /\ sock[ws] = "CONNECTING"

\* C13 -- every socket is created by a handler run that reports
\* 'reconnecting', makes it the current socket and issues the catch-up fetch
\* in the same run (connect() always creates one); the open event of a
\* connecting socket and the outcome of a fetch in flight can each come
\* first; and 'connected' is reported only by the open event of a socket.
C13_ConnectOrder ==
  [][/\ connect(ConnCap) => \E s \in Slots : sock[s] = "CLOSED" /\ sock'[s] = "CONNECTING"
     /\ \A s \in Slots :
          (sock[s] = "CLOSED" /\ sock'[s] = "CONNECTING")
            => (lastStatus' = "reconnecting" /\ ws' = s /\ fetches' = fetches + 1)
     /\ \A s \in Slots : sock[s] = "CONNECTING" => ENABLED onopen(s)
     /\ fetches > 0 => ENABLED FetchFailed /\ ENABLED FetchLines(<<>>)
     /\ (lastStatus' = "connected" /\ lastStatus # "connected")
          => \E s \in Slots : sock[s] = "CONNECTING" /\ sock'[s] = "OPEN"]_vars

\* The socket has opened and 'connected' was reported while the catch-up
\* fetch of the attempt is still in flight.
C13_Witness ==
  /\ ws # 0
  /\ sock[ws] = "OPEN"
  /\ lastStatus = "connected"
  /\ fetches > 0

\* The five types, and the tag markers in the order of their precedence.
Types == {"permission", "choice", "approve", "done", "decision"}
MarkerOrder ==
  << <<"lock", "permission">>, <<"point_right", "choice">>, <<"question", "approve">>,
     <<"white_check_mark", "done">>, <<"warning", "decision">> >>

\* The tags of the message being classified.
RawTags == IF raw.tags = Missing THEN {} ELSE raw.tags[1]

\* C14 -- the type is one of the five, and when the tags contain a marker it
\* is the type of the first marker, in the order lock, point_right, question,
\* white_check_mark, warning, that the tags contain, whatever the title.
C14_TagPrecedence ==
  made # NoMade =>
    /\ made.type \in Types
    /\ LET hit == {i \in 1..5 : MarkerOrder[i][1] \in RawTags}
       IN  hit # {} =>
             made.type = MarkerOrder[CHOOSE i \in hit : \A j \in hit : i <= j][2]

\* A message tagged 'warning' and 'white_check_mark' whose title contains
\* "Permission" is classified by its first marker: done.
C14_Witness ==
  /\ raw.tags = Some({"warning", "white_check_mark"})
  /\ raw.title = Some(<<"Permission">>)
  /\ made.type = "done"

\* The correlation id the claim describes: the digits after the last
\* underscore of the body, if the body ends with them.
AfterLastUnderscore(b) ==
  LET us == {i \in 1..Len(b) : b[i] = "_"}
  IN  IF us = {} THEN Missing
      ELSE LET u   == CHOOSE i \in us : \A j \in us : j <= i
               suf == SubSeq(b, u + 1, Len(b))
           IN  IF suf # <<>> /\ \A i \in 1..Len(suf) : suf[i] \in Digits
                 THEN Some(suf) ELSE Missing

\* C15 -- the correlation id is null when no action was extracted, and else
\* the run of digits that ends the first extracted action's body after its
\* last underscore, or null when the body does not end so; the actions after
\* the first play no part.
C15_ReqId ==
  made # NoMade =>
    made.reqId = IF made.actions = <<>> THEN Missing
                 ELSE AfterLastUnderscore(made.actions[1].body)

\* The first http action, which follows an action of another kind, carries
\* the id 7 after its last underscore, the action after it another id.
C15_Witness ==
  /\ raw.actions.shape = "list"
  /\ Len(raw.actions.list) = 3
  /\ raw.actions.list[1] = ViewAction
  /\ raw.actions.list[2].body = <<"_", "8", "_", "7">>
  /\ raw.actions.list[3] = HttpAction(<<"K", "_", "8">>)
  /\ made.reqId = Some(<<"7">>)

\* What an operation's invocation does in a step: its position changes.
Steps(op) == pcall'[op] # pcall[op]

\* C16: unsubscribe() always completes the local-side teardown whenever a
\* subscription exists, for every outcome of the provider DELETE request
\* (success, error status, network failure), and a provider failure is never
\* propagated to the caller.  With a subscription the DELETE is sent; each of
\* its outcomes can happen and leads to sub.unsubscribe() on that
\* subscription; the operation ends with the subscription gone, or fails
\* because the platform's own unsubscribe() rejected -- never because of the
\* provider.
C16_TeardownAlways ==
  [][ LET u == pcall["unsubscribe"]  v == pcall'["unsubscribe"] IN
      /\ u.cause # "provider" /\ v.cause # "provider"
      /\ (u.pc = "ready" /\ Steps("unsubscribe") /\ subscription # Missing)
           => (v.pc = "delete" /\ v.sub = subscription)
      /\ u.pc = "delete"
           => /\ \A o \in Outcomes : ENABLED unsubscribe_Deleted(o)
              /\ Steps("unsubscribe") => (v.pc = "teardown" /\ v.sub = u.sub)
      /\ u.pc = "teardown"
           => /\ ENABLED unsubscribe_Teardown(TRUE)
              /\ Steps("unsubscribe")
                   => \/ v.pc = "done" /\ subscription' # u.sub
                      \/ v.pc = "failed" /\ v.cause = "platform"
      /\ (v.pc = "done" /\ v.sub # Missing) => subscription' # v.sub
    ]_vars

\* C16 witness: unsubscribe() has finished, the platform subscription is gone
\* although the provider still holds the registration (the DELETE failed).
C16_Witness ==
  LET u == pcall["unsubscribe"] IN
  /\ u.pc = "done" /\ u.sub # Missing
  /\ subscription = Missing
  /\ registry[u.sub[1]] # Missing

\* C17: updateTopics(topics) reuses the existing platform push subscription:
\* it never requests user permission and never creates a platform
\* subscription, it re-registers the existing endpoint with the given topics,
\* and it sends no registration request when no subscription exists.
C17_UpdateReuses ==
  [][ LET u == pcall["updateTopics"]  v == pcall'["updateTopics"] IN
      Steps("updateTopics") =>
        /\ prompts' = prompts /\ permission' = permission
        /\ subscribes' = subscribes /\ subscription' = subscription
        /\ u.pc = "ready" =>
             IF subscription = Missing
               THEN v.pc = "done" /\ inflight' = inflight /\ registry' = registry
               ELSE /\ v.pc = "register"
                    /\ inflight' = inflight \cup
                         {Request("updateTopics", "POST", subscription[1], u.topics)}
                    /\ inflight' # inflight
        /\ u.pc # "ready" => inflight' \subseteq inflight
        /\ (u.pc = "register" /\ v.pc = "done")
             => registry' = [registry EXCEPT ![u.sub[1]] = Some(u.topics)]
        /\ ~(u.pc = "register" /\ v.pc = "done") => registry' = registry
    ]_vars

\* C17 witness: updateTopics has re-registered the subscription of an earlier
\* session with other topics; no prompt was shown, no subscription created.
C17_Witness ==
  LET u == pcall["updateTopics"] IN
  /\ u.pc = "done" /\ u.sub = Some(1) /\ u.topics = {"claude", "builds"}
  /\ registry[1] = Some({"claude", "builds"})
  /\ subscription = Some(1) /\ subscribes = 1 /\ prompts = 0
  /\ pcall["subscribe"] = Idle

\* C18 as stated -- no gap between catch-up and live stream: every message
\* published after the connection attempt started is delivered to the
\* callback by the live socket or by the catch-up fetch of that attempt.
\* Once the catch-up response has been processed and the open socket has
\* delivered all that the provider owed it, every such message has reached
\* the callback.
C18_Claim ==
  (/\ ws = 1 /\ sock[1] = "OPEN"
   /\ provider.fetched = "ok"
   /\ provider.joined # Missing /\ Owed = Len(provider.log))
    => \A i \in 1..Len(provider.log) : provider.log[i].id \in cbIds

\* The current socket is closing or closed and the caller has not called
\* disconnect().
Down == started /\ ~intentionalClose /\ ws # 0 /\ sock[ws] \in {"CLOSING", "CLOSED"}

\* A connection attempt has just been started: the current socket is new.
Attempt == ws # 0 /\ sock[ws] = "CONNECTING"

\* C19: reconnect liveness -- whenever the socket closes unexpectedly
\* (transport error, server close, watchdog-forced close) and the caller does
\* not call disconnect(), a new connection attempt is eventually started,
\* under fair firing of timers and socket events, for any interleaving with
\* wake triggers.
C19_ReconnectLiveness == Down ~> (Attempt \/ intentionalClose)

\* C19 witness: after an unexpected close the backoff timer has fired and
\* started the attempt (no wake trigger, no connect() did it).
C19_Witness ==
  /\ Attempt /\ ~intentionalClose
  /\ closes > 0 /\ fires > 0
  /\ woke = "none" /\ ~reconnectTimer

\* C20: the reconnect delay stays within [floor, ceiling] = [1000 ms,
\* MAX_RECONNECT_DELAY] in every reachable state, after any sequence of
\* closes, opens, timer firings, wake triggers, connect() and disconnect().
C20_DelayInRange ==
  /\ reconnectDelay >= FLOOR
  /\ reconnectDelay <= MAX_RECONNECT_DELAY

\* C20 witness: the timer has just fired and the doubled delay was cut to the
\* ceiling.
C20_Witness ==
  /\ reconnectDelay = MAX_RECONNECT_DELAY
  /\ FLOOR * Pow2(fires) > MAX_RECONNECT_DELAY
  /\ ~reconnectTimer /\ woke = "none"
  /\ Attempt

\* C21 as stated -- the catch-up fetch asks for messages since (high-water
\* mark - 5 seconds) whenever a persisted high-water mark exists, and since
\* (now - one hour) only when no high-water mark exists yet.
C21_Claim ==
  asked # Missing =>
    /\ storedSince # <<>> => asked[1] = parseInt(storedSince) - OVERLAP
    /\ storedSince = <<>> => asked[1] = now - LOOKBACK

\* C22: every inbound socket frame -- a message, a keepalive or open frame
\* (event present and not 'message'), a frame that fails to parse -- resets
\* the staleness watchdog: it is pending afterwards and its time starts
\* anew.  A frame whose event is present and not 'message' produces no
\* notification (the callback is not invoked) and leaves the high-water mark
\* as it is.
C22_FramesResetWatchdog ==
  [][ /\ \A f \in Frames(FrameMsgs) :
           onmessage(1, f) => (watchdogTimer' /\ elapsed' = 0)
      /\ onmessage(1, Keepalive)
           => /\ notifications' = notifications /\ seenIds' = seenIds
              /\ cbIds' = cbIds /\ paths' = paths
              /\ lastSince' = lastSince /\ storedSince' = storedSince
    ]_vars

\* C22 witness: the watchdog had been running for a while when a frame that
\* does not parse reset it; no notification, no high-water mark.
C22_Witness ==
  /\ sock[1] = "OPEN" /\ watchdogTimer /\ elapsed = 0
  /\ lastFrame.kind = "garbage" /\ lastFrame.after > 0
  /\ cbIds = {} /\ lastSince = 0

\* The lines of a response that can be parsed and processed.
Good(lines) == SelectSeq(lines, LAMBDA l : l.kind \notin {"garbage", "broken"})

C24_FetchFailureHarmless ==
  [][ /\ (provider.fetched = "pending" /\ provider'.fetched = "failed")
           => /\ notifications' = notifications /\ seenIds' = seenIds
              /\ cbIds' = cbIds /\ paths' = paths
              /\ ws' = ws /\ sock' = sock /\ lastStatus' = lastStatus
              /\ reconnectDelay' = reconnectDelay
              /\ reconnectTimer' = reconnectTimer /\ watchdogTimer' = watchdogTimer
              /\ lastSince' = lastSince /\ storedSince' = storedSince
      /\ (sock[1] = "CONNECTING" /\ provider.joined # Missing) => ENABLED FeedOpen
      /\ (sock[1] = "OPEN" /\ Owed < Len(provider.log)) => ENABLED FeedLive
    ]_vars

\* C24 witness: the fetch has failed; the socket is open and has delivered a
\* message, which is a notification.
C24_Witness ==
  /\ provider.fetched = "failed"
  /\ sock[1] = "OPEN" /\ lastStatus = "connected"
  /\ provider.pushed > 0
  /\ paths = {"live"}
  /\ Len(notifications) = provider.pushed

\* C25 as stated -- the Seen-Set is bounded: its size never exceeds the cap
\* (200 ids), the oldest-inserted ids being evicted first, after any sequence
\* of ingested messages; this holds for the set used for deduplication as
\* well as for its persisted copy.
C25_Claim ==
  /\ Len(seenIds) <= SEEN_CAP
  /\ Len(storedSeen) <= SEEN_CAP
  /\ storedSeen = saveSeen(seenIds)

\* The title words tested when no tag decides, in the order of the tests,
\* and the title of the message being classified.
HeuristicOrder ==
  << <<"Permission", "permission">>, <<"Vyber", "choice">>, <<"Schvaleni", "approve">>,
     <<"Hotovo", "done">> >>
RawTitle == IF raw.title = Missing THEN <<>> ELSE raw.title[1]

\* C26 -- when the message carries none of the five tag markers, its type is
\* that of the first title word, in the order Permission, Vyber, Schvaleni,
\* Hotovo, that the title contains, and decision when the title contains none
\* of them (a message without tags and without a title included).
C26_TitleHeuristics ==
  (made # NoMade /\ \A i \in 1..5 : MarkerOrder[i][1] \notin RawTags) =>
    LET hit == {i \in 1..4 : includes(RawTitle, HeuristicOrder[i][1])}
    IN  made.type = IF hit = {} THEN "decision"
                    ELSE HeuristicOrder[CHOOSE i \in hit : \A j \in hit : i <= j][2]

\* A message whose only tag is no marker and whose title reads "Hotovo Vyber"
\* is a choice.
C26_Witness ==
  /\ raw.tags = Some({"tada"})
  /\ raw.title = Some(<<"Hotovo", "Vyber">>)
  /\ raw.actions = NoActions
  /\ made.type = "choice"

\* The positions of the raw actions whose kind is "http", and the position of
\* the k-th of them.
HttpAt == {i \in 1..Len(raw.actions.list) : raw.actions.list[i].action = "http"}
NthHttp(k) == CHOOSE i \in HttpAt : Cardinality({j \in HttpAt : j <= i}) = k

\* C27 -- the extracted actions are exactly the raw actions of kind "http",
\* in their original order, each as {label, body}; actions of any other kind
\* are dropped, and a message whose actions are missing or no list has no
\* extracted action and a null correlation id, whatever its type.
C27_HttpActionsOnly ==
  made # NoMade =>
    IF raw.actions.shape = "list"
      THEN /\ Len(made.actions) = Cardinality(HttpAt)
           /\ \A k \in 1..Len(made.actions) :
                made.actions[k] = [label |-> raw.actions.list[NthHttp(k)].label,
                                   body  |-> raw.actions.list[NthHttp(k)].body]
      ELSE /\ made.actions = <<>>
           /\ made.reqId = Missing

\* A permission message with four raw actions keeps its second and its
\* fourth, the two of kind "http", in that order.
C27_Witness ==
  /\ raw.tags = Some({"lock"})
  /\ raw.actions = ActionList(MixedActions)
  /\ made.type = "permission"
  /\ made.actions = <<[label |-> "Yes", body |-> <<"K", "_", "7">>],
                      [label |-> "No", body |-> <<"K", "_", "8">>]>>
  /\ made.reqId = Some(<<"7">>)

\* The sockets that are open or opening, and the step that creates a socket.
Live == {s \in Slots : sock[s] \in {"OPEN", "CONNECTING"}}
Created == \E s \in Slots : sock[s] # "CONNECTING" /\ sock'[s] = "CONNECTING"

\* C28 -- at most one socket is OPEN or CONNECTING at any time, and it is the
\* current one; a socket is created only in a step that starts with the
\* current socket absent, CLOSING or CLOSED, whether connect(), the backoff
\* timer or a wake trigger creates it.
C28_OneLiveSocket ==
  [][/\ Cardinality(Live) <= 1 /\ Live \subseteq {ws}
     /\ Cardinality(Live') <= 1 /\ Live' \subseteq {ws'}
     /\ Created => (ws = 0 \/ sock[ws] \in {"CLOSING", "CLOSED"})]_vars

\* The watchdog closed a socket that is still closing, a wake trigger has
\* created its successor, and the successor is open.
C28_Witness ==
  /\ ws # 0
  /\ sock[ws] = "OPEN"
  /\ \E s \in Slots : s # ws /\ sock[s] = "CLOSING" /\ s \notin callerClosed
  /\ ~reconnectTimer
  /\ Cardinality(Live) = 1

\* C29 as stated -- the last status reported agrees with the current socket:
\* whenever the current socket is OPEN the last status is 'connected', and
\* whenever the last status is 'connected' the current socket is open (its
\* open event has fired and its close event has not), in every reachable
\* state, those after the close event of a replaced socket included.
C29_Claim ==
  /\ (ws # 0 /\ sock[ws] = "OPEN") => lastStatus = "connected"
  /\ lastStatus = "connected" => (ws # 0 /\ ws \in opened /\ sock[ws] # "CLOSED")

\* C30 as stated -- whenever the current socket is open (its open event has
\* fired and it has not closed) a watchdog timer is armed for it: no close
\* event of an earlier socket leaves an open socket without an armed watchdog.
C30_Claim ==
  \A s \in Live : s \in opened => watchdogTimer

\* C31 as stated -- after disconnect() and until the next connect() the
\* notification callback is not invoked and the reported status does not
\* change, even if a catch-up fetch or a socket event was in flight when
\* disconnect() was called.
C31_Claim ==
  [][(intentionalClose /\ intentionalClose') =>
       /\ cbIds' \subseteq cbIds
       /\ dupCall' => dupCall
       /\ Len(notifications') <= Len(notifications)
       /\ lastStatus' = lastStatus]_vars

====
